---- MODULE Spec2Model ----
(***************************************************************************)
(* Model of the word-service document engine (src/main.py).                *)
(*                                                                         *)
(* Part 1: the heading-anchored table inserter                             *)
(*   create_*_table (doc.add_table), delete_table_after_heading,           *)
(*   insert_table_after_heading, generate_from_templates.                  *)
(* Part 2: the generated-table builders' row-span merge pass               *)
(*   create_chinese_table, create_english_table.                           *)
(* Part 3: the column-width estimator                                      *)
(*   calculate_text_width, auto_fit_column_widths.                         *)
(*   Widths are in hundredths of a centimetre; a scaled width is the exact *)
(*   fraction num/den.                                                     *)
(*                                                                         *)
(* A document body is a sequence of blocks.  A block is a paragraph (with  *)
(* its text, a sequence of word tokens) or a table.  Every block carries   *)
(* an id, so that "the same paragraph" and "the same table" can be told    *)
(* apart from "an equal one".  Text containment (Python's `in` on str) is  *)
(* contiguous-subsequence containment on the token sequences.              *)
(***************************************************************************)
EXTENDS Integers, Sequences, FiniteSets, TLC

(* ------------------------------ bounds -------------------------------- *)
\* Largest number of blocks in a loaded template.
MaxBlocks == 3
\* Largest number of build-and-insert rounds run on one document.
MaxRounds == 2
\* Largest number of records handed to a table builder.
MaxRecords == 4
\* Largest number of data rows handed to the column-width estimator.
MaxDataRows == 2
\* Longest line handed to the line classifier, in characters.
MaxLineLen == 4
\* Largest number of data rows of a table handed to the row updater.
MaxUpdateRows == 3
\* Largest number of rows of the first table of a patched document.
MaxPatchRows == 3

(* --------------------------- text constants --------------------------- *)
\* A whitespace token (what str.strip() removes at both ends).
WS == " "

\* "Daily Construction Statistics Table"
EnHeading == <<"Daily", "Construction", "Statistics", "Table">>

\* The Chinese heading of generate_from_template; one token.
CnHeading == <<"DangRiShiGongTongJiBiao">>

\* The fallback headings that insert_table_after_heading adds.
EnAliases ==
    << <<"Daily", "Construction", "Statistics">>,
       <<"2.", "On-site", "Construction", "Activities">>,
       <<"Construction", "Activities">> >>

\* The heading texts a caller passes.
HeadingInputs == {EnHeading, CnHeading}

\* The paragraph texts a template is built from.
ParagraphTexts ==
    { EnHeading,
      <<"Daily", "Construction", "Statistics">>,
      <<"2.", "On-site", "Construction", "Activities">>,
      <<WS, "Construction", "Activities">>,
      <<"2.2", "DangRiShiGongTongJiBiao">>,
      <<"Remarks">> }

(* ------------------------------- state -------------------------------- *)
VARIABLES
    template,        \* the block sequence as loaded
    doc,             \* the document's block sequence
    heading,         \* heading_text
    deleteExisting,  \* delete_existing
    dataEmpty,       \* whether the record list is empty
    pc,              \* position in the generate pipeline
    round,           \* number of the current build-and-insert round
    newTable,        \* id of the table built in this round, 0 for None
    docAtCall,       \* the block sequence when the insert was called
    delAnchor,       \* id of the paragraph the deletion step matched, 0 if none
    deleted,         \* id of the block the deletion step removed, 0 if none
    insAnchor,       \* id of target_paragraph, 0 for None
    result           \* return value of the insert: "none", "true", "false"

insVars == <<template, doc, heading, deleteExisting, dataEmpty, pc, round,
             newTable, docAtCall, delAnchor, deleted, insAnchor, result>>

VARIABLES
    data,            \* the record list handed to the builder
    builder,         \* which builder ran: "none", "cn", "en"
    table,           \* the table the builder returns
    tpc              \* "idle", "input", "built", "empty" (builder returned None)

tblVars == <<data, builder, table, tpc>>

\* One record per further component; [pc |-> "idle"] while it is not run.
VARIABLES
    est,             \* auto_fit_column_widths: inputs, col_widths, result
    wx,              \* get_pakbeng_weather: response and returned payload
    conc,            \* two concurrent generate invocations
    cls,             \* the line classifier
    upd,             \* the row updater
    dw               \* update_document_date_weather

Idle == [pc |-> "idle"]

auxVars == <<est, wx, conc, cls, upd, dw>>

AuxIdle ==
    /\ est = Idle
    /\ wx = Idle
    /\ conc = Idle
    /\ cls = Idle
    /\ upd = Idle
    /\ dw = Idle

vars == <<insVars, tblVars, auxVars>>

(* ------------------------------ helpers ------------------------------- *)
Min(S) == CHOOSE x \in S : \A y \in S : x <= y

\* head in text
Contains(text, head) ==
    \E i \in 0..(Len(text) - Len(head)) :
        SubSeq(text, i + 1, i + Len(head)) = head

RECURSIVE LStrip(_)
LStrip(text) ==
    IF text # <<>> /\ Head(text) = WS THEN LStrip(Tail(text)) ELSE text

RECURSIVE RStrip(_)
RStrip(text) ==
    IF text # <<>> /\ text[Len(text)] = WS
    THEN RStrip(SubSeq(text, 1, Len(text) - 1))
    ELSE text

\* text.strip()
Strip(text) == RStrip(LStrip(text))

Paragraph(i, t) == [kind |-> "p", id |-> i, text |-> t]

Table(i) == [kind |-> "tbl", id |-> i, text |-> <<>>]

\* The id of the table built in round r.
NewTableId(r) == 100 + r

\* Indices of the body-level paragraphs (doc.paragraphs), in order.
ParagraphIndices(d) == {i \in 1..Len(d) : d[i].kind = "p"}

\* Index of the block with id b in d, 0 when absent.
IndexOf(d, b) ==
    IF \E i \in 1..Len(d) : d[i].id = b
    THEN CHOOSE i \in 1..Len(d) : d[i].id = b
    ELSE 0

\* d without its i-th block (parent.remove).
RemoveAt(d, i) == SubSeq(d, 1, i - 1) \o SubSeq(d, i + 1, Len(d))

\* A variant of possible_headings that adds the fallbacks to every heading.
PossibleHeadingsAnyHeading(h) == <<h>> \o EnAliases

\* possible_headings
PossibleHeadings(h) ==
    IF h = EnHeading THEN <<h>> \o EnAliases ELSE <<h>>

(* --------------------- delete_table_after_heading --------------------- *)
\* A variant of the lookup that falls back to the first paragraph when no
\* paragraph contains head.
FindParagraphOrFirst(d, head) ==
    LET hits == {i \in ParagraphIndices(d) : Contains(d[i].text, head)}
    IN  IF hits # {} THEN Min(hits)
        ELSE IF ParagraphIndices(d) # {} THEN Min(ParagraphIndices(d)) ELSE 0

\* The first paragraph whose text contains head: its index, 0 for None.
FindParagraph(d, head) ==
    LET hits == {i \in ParagraphIndices(d) : Contains(d[i].text, head)}
    IN  IF hits = {} THEN 0 ELSE Min(hits)

\* A variant of the walk that takes the next sibling whatever its kind.
NextBlockIndex(d, p) == IF p + 1 <= Len(d) THEN p + 1 ELSE 0

\* A variant of the walk that looks at the immediate next sibling only.
NextTableIndexImmediate(d, p) ==
    IF p + 1 <= Len(d) /\ d[p + 1].kind = "tbl" THEN p + 1 ELSE 0

\* The getnext() walk from paragraph p: index of the first table after p,
\* 0 when the walk reaches the end of the body.
NextTableIndex(d, p) ==
    LET hits == {j \in (p + 1)..Len(d) : d[j].kind = "tbl"}
    IN  IF hits = {} THEN 0 ELSE Min(hits)

NoDeletion(d) == [ok |-> FALSE, anchor |-> 0, removed |-> 0, doc |-> d]

DeleteTableAfterHeading(d, head) ==
    LET p == FindParagraph(d, head)
        j == IF p = 0 THEN 0 ELSE NextTableIndex(d, p)
    IN  IF p = 0 \/ j = 0
        THEN NoDeletion(d)
        ELSE [ok |-> TRUE, anchor |-> d[p].id, removed |-> d[j].id,
              doc |-> RemoveAt(d, j)]

(* --------------------- insert_table_after_heading --------------------- *)
\* The deletion loop: each possible heading in turn, stopping at the first
\* one for which a table was deleted.
RECURSIVE DeleteLoop(_, _, _)
DeleteLoop(d, heads, k) ==
    IF k > Len(heads)
    THEN NoDeletion(d)
    ELSE LET r == DeleteTableAfterHeading(d, heads[k])
         IN  IF r.ok THEN r ELSE DeleteLoop(d, heads, k + 1)

\* The lookup of target_paragraph: paragraphs in the outer loop, possible
\* headings in the inner loop, on the stripped text.  Index, 0 for None.
FindTarget(d, heads) ==
    LET hits == {i \in ParagraphIndices(d) :
                    \E k \in 1..Len(heads) : Contains(Strip(d[i].text), heads[k])}
    IN  IF hits = {} THEN 0 ELSE Min(hits)

\* A variant of addnext that inserts without detaching the element first.
AddNextCopy(d, pid, tbl) ==
    LET p == IndexOf(d, pid)
    IN  SubSeq(d, 1, p) \o <<tbl>> \o SubSeq(d, p + 1, Len(d))

\* p.addnext(tbl): the element is moved, so it leaves the place it had.
AddNext(d, pid, tbl) ==
    LET at      == IndexOf(d, tbl.id)
        without == IF at = 0 THEN d ELSE RemoveAt(d, at)
        p       == IndexOf(without, pid)
    IN  SubSeq(without, 1, p) \o <<tbl>> \o SubSeq(without, p + 1, Len(without))

\* The whole call: what it leaves in the document and what it returns.
InsertTableAfterHeadingResult(d, h, tid, delEx) ==
    LET heads == PossibleHeadings(h)
        del   == IF delEx THEN DeleteLoop(d, heads, 1) ELSE NoDeletion(d)
        t     == FindTarget(del.doc, heads)
    IN  IF t = 0
        THEN [doc |-> del.doc, ret |-> "false", target |-> 0,
              delAnchor |-> del.anchor, deleted |-> del.removed]
        ELSE [doc |-> AddNext(del.doc, del.doc[t].id, Table(tid)),
              ret |-> "true", target |-> del.doc[t].id,
              delAnchor |-> del.anchor, deleted |-> del.removed]

(* ------------------------------ actions ------------------------------- *)
BlockChoices ==
    [kind : {"p"}, text : ParagraphTexts] \cup {[kind |-> "tbl", text |-> <<>>]}

\* Document(io.BytesIO(template_bytes)): any template of up to MaxBlocks blocks.
Templates ==
    UNION { { [i \in 1..n |-> [kind |-> f[i].kind, id |-> i, text |-> f[i].text]] :
                f \in [1..n -> BlockChoices] } : n \in 0..MaxBlocks }

InsInit ==
    /\ template \in Templates
    /\ doc = template
    /\ heading \in HeadingInputs
    /\ deleteExisting \in BOOLEAN
    /\ dataEmpty \in BOOLEAN
    /\ pc = "loaded"
    /\ round = 1
    /\ newTable = 0
    /\ docAtCall = <<>>
    /\ delAnchor = 0
    /\ deleted = 0
    /\ insAnchor = 0
    /\ result = "none"

\* A variant of the builders that adds a table for an empty record list too.
CreateTableAlways ==
    /\ pc = "loaded"
    /\ newTable' = NewTableId(round)
    /\ doc' = Append(doc, Table(NewTableId(round)))
    /\ pc' = "built"
    /\ UNCHANGED <<template, heading, deleteExisting, dataEmpty, round,
                   docAtCall, delAnchor, deleted, insAnchor, result>>
    /\ UNCHANGED <<tblVars, auxVars>>

\* create_chinese_table / create_english_table as the document sees them:
\* no table (None) for an empty record list, else doc.add_table appends the
\* new table at the end of the body.
CreateTable ==
    /\ pc = "loaded"
    /\ IF dataEmpty
       THEN /\ newTable' = 0
            /\ doc' = doc
            /\ pc' = "skipped"
       ELSE /\ newTable' = NewTableId(round)
            /\ doc' = Append(doc, Table(NewTableId(round)))
            /\ pc' = "built"
    /\ UNCHANGED <<template, heading, deleteExisting, dataEmpty, round,
                   docAtCall, delAnchor, deleted, insAnchor, result>>
    /\ UNCHANGED <<tblVars, auxVars>>

\* insert_table_after_heading(doc, heading, table, delete_existing)
InsertTableAfterHeading ==
    /\ pc = "built"
    /\ LET r == InsertTableAfterHeadingResult(doc, heading, newTable, deleteExisting)
       IN  /\ doc' = r.doc
           /\ result' = r.ret
           /\ insAnchor' = r.target
           /\ delAnchor' = r.delAnchor
           /\ deleted' = r.deleted
    /\ docAtCall' = doc
    /\ pc' = "inserted"
    /\ UNCHANGED <<template, heading, deleteExisting, dataEmpty, round, newTable>>
    /\ UNCHANGED <<tblVars, auxVars>>

\* doc.save(buffer): the operation completes.
Save ==
    /\ pc \in {"inserted", "skipped"}
    /\ pc' = "saved"
    /\ UNCHANGED <<template, doc, heading, deleteExisting, dataEmpty, round,
                   newTable, docAtCall, delAnchor, deleted, insAnchor, result>>
    /\ UNCHANGED <<tblVars, auxVars>>

\* The saved document is the template of a further generate call.
NextRound ==
    /\ pc = "saved"
    /\ round < MaxRounds
    /\ template' = doc
    /\ round' = round + 1
    /\ pc' = "loaded"
    /\ newTable' = 0
    /\ docAtCall' = <<>>
    /\ delAnchor' = 0
    /\ deleted' = 0
    /\ insAnchor' = 0
    /\ result' = "none"
    /\ UNCHANGED <<doc, heading, deleteExisting, dataEmpty>>
    /\ UNCHANGED <<tblVars, auxVars>>


(* ===================== the generated-table builders ==================== *)
\* item.get('seq') of a record without a seq (None); TableRow.seq is an int.
NoSeq == -1

\* The seq values and locations of the records.
SeqValues == {1, 2}

Locations == {"A", "B"}

\* A built table: its data rows 1..rows (row 0 is the header), the content of
\* the cells of column 0 (key) and column 1 (location), <<>> for a cell
\* nothing was written to, and the vertical merges in the order of the
\* merge calls.  Columns 2..4 are written once per row and never merged.
NoTable == [rows |-> 0, text |-> <<>>, spans |-> <<>>]

\* doc.add_table(rows=len(data) + 1, cols=5)
AddTable(n) ==
    [rows |-> n, text |-> [c \in (1..n) \X {0, 1} |-> <<>>], spans |-> <<>>]

\* set_cell_text_with_mixed_fonts(row.cells[col], x, ...): the cell's content
\* is replaced by one run holding x.
SetCellText(t, row, col, x) == [t EXCEPT !.text[<<row, col>>] = <<x>>]

\* table.cell(first, col).merge(table.cell(last, col))
Merge(t, col, first, last) ==
    [t EXCEPT !.spans = Append(@, [col |-> col, first |-> first, last |-> last])]

\* Both designated columns merged over the same rows.
MergeBoth(t, first, last) == Merge(Merge(t, 0, first, last), 1, first, last)

\* str(seq); str(item.get('seq', '')) is '' for a record without a seq.
Str(seq) == IF seq = NoSeq THEN "" ELSE ToString(seq)

\* merge_info[seq] of create_chinese_table: occurrences in the whole list.
MergeInfo(d, seq) == Cardinality({i \in 1..Len(d) : d[i].seq = seq})

\* The data-row loop of create_chinese_table from row i on.
RECURSIVE ChineseRows(_, _, _, _)
ChineseRows(d, i, done, t) ==
    IF i > Len(d)
    THEN t
    ELSE LET seq == d[i].seq
             mc  == MergeInfo(d, seq)
             t1  == IF seq \notin done
                    THEN SetCellText(SetCellText(t, i, 0, Str(seq)), i, 1, d[i].location)
                    ELSE t
             t2  == IF seq \notin done /\ mc > 1
                    THEN MergeBoth(t1, i, i + mc - 1)
                    ELSE t1
         IN  ChineseRows(d, i + 1, done \cup {seq}, t2)

\* create_chinese_table(doc, data), data not empty
ChineseTable(d) == ChineseRows(d, 1, {}, AddTable(Len(d)))

\* The fill loop of create_english_table: every row gets its key and location.
RECURSIVE EnglishFill(_, _, _)
EnglishFill(d, i, t) ==
    IF i > Len(d)
    THEN t
    ELSE EnglishFill(d, i + 1,
             SetCellText(SetCellText(t, i, 0, Str(d[i].seq)), i, 1, d[i].location))

\* The merge loop of create_english_table from record i on, with the open
\* group (current_seq, start_idx, count); the group left open is closed at
\* the end.
RECURSIVE EnglishGroups(_, _, _, _, _, _)
EnglishGroups(d, i, cur, start, count, t) ==
    LET closed == IF count > 1 THEN MergeBoth(t, start, start + count - 1) ELSE t
    IN  IF i > Len(d)
        THEN closed
        ELSE IF d[i].seq = cur /\ d[i].seq # NoSeq
             THEN EnglishGroups(d, i + 1, cur, start, count + 1, t)
             ELSE EnglishGroups(d, i + 1, d[i].seq, i, 1, closed)

\* create_english_table(doc, data), data not empty
EnglishTable(d) ==
    LET filled == EnglishFill(d, 1, AddTable(Len(d)))
    IN  IF Len(d) > 1 THEN EnglishGroups(d, 1, NoSeq, 1, 0, filled) ELSE filled

Records == [seq : SeqValues \cup {NoSeq}, location : Locations]

RecordLists == UNION {[1..n -> Records] : n \in 0..MaxRecords}

TblInit ==
    /\ data \in RecordLists
    /\ builder = "none"
    /\ table = NoTable
    /\ tpc = "input"

TblIdle ==
    /\ data = <<>>
    /\ builder = "none"
    /\ table = NoTable
    /\ tpc = "idle"

InsIdle ==
    /\ template = <<>>
    /\ doc = <<>>
    /\ heading = CnHeading
    /\ deleteExisting = TRUE
    /\ dataEmpty = TRUE
    /\ pc = "idle"
    /\ round = 1
    /\ newTable = 0
    /\ docAtCall = <<>>
    /\ delAnchor = 0
    /\ deleted = 0
    /\ insAnchor = 0
    /\ result = "none"

\* create_chinese_table(doc, data): List[TableRow], every seq an int.
CreateChineseTable ==
    /\ tpc = "input"
    /\ \A i \in 1..Len(data) : data[i].seq # NoSeq
    /\ builder' = "cn"
    /\ IF data = <<>>
       THEN table' = NoTable /\ tpc' = "empty"
       ELSE table' = ChineseTable(data) /\ tpc' = "built"
    /\ UNCHANGED data
    /\ UNCHANGED <<insVars, auxVars>>

\* create_english_table(doc, data): List[dict]
CreateEnglishTable ==
    /\ tpc = "input"
    /\ builder' = "en"
    /\ IF data = <<>>
       THEN table' = NoTable /\ tpc' = "empty"
       ELSE table' = EnglishTable(data) /\ tpc' = "built"
    /\ UNCHANGED data
    /\ UNCHANGED <<insVars, auxVars>>

Init == InsInit /\ TblIdle /\ AuxIdle

Next == CreateTable \/ InsertTableAfterHeading \/ Save \/ NextRound

Spec == Init /\ [][Next]_vars

TableInit == TblInit /\ InsIdle /\ AuxIdle

TableNext == CreateChineseTable \/ CreateEnglishTable

SpecTable == TableInit /\ [][TableNext]_vars


(* ===================== the column-width estimator ====================== *)
\* Widths of calculate_text_width, in hundredths of a centimetre.
CnCharWidth == 42
EnCharWidth == 22
DefaultCharWidth == 25
\* Paddings of auto_fit_column_widths.
HeaderPadding == 50
DataPadding == 30
\* Defaults of auto_fit_column_widths for min_widths and max_widths.
DefaultMinWidth == 100
DefaultMaxWidth == 600

Max2(a, b) == IF a >= b THEN a ELSE b

Min2(a, b) == IF a <= b THEN a ELSE b

RECURSIVE SumSeq(_)
SumSeq(ws) == IF ws = <<>> THEN 0 ELSE Head(ws) + SumSeq(Tail(ws))

\* A text is a sequence of characters, each "C" (a CJK ideograph, U+4E00 to
\* U+9FFF) or "L" (any other character).
CnCount(text) == Cardinality({i \in 1..Len(text) : text[i] = "C"})

\* calculate_text_width(text, is_chinese)
CalculateTextWidth(text, isChinese) ==
    IF isChinese
    THEN CnCount(text) * CnCharWidth + (Len(text) - CnCount(text)) * EnCharWidth
    ELSE Len(text) * DefaultCharWidth

\* The per-string width as auto_fit_column_widths asks for it: the call
\* passes no is_chinese, which then is False.
TextWidth(text) == CalculateTextWidth(text, FALSE)

\* The loop over data_rows for column c (1-based): max_data_width.
RECURSIVE MaxDataWidth(_, _, _)
MaxDataWidth(rows, c, m) ==
    IF rows = <<>>
    THEN m
    ELSE MaxDataWidth(Tail(rows), c,
             IF c <= Len(Head(rows))
             THEN Max2(m, TextWidth(Head(rows)[c]) + DataPadding)
             ELSE m)

\* A variant of the limits that applies the maximum only.
ClampUpperOnly(lo, hi, w) == Min2(hi, w)

\* max(min_widths[c], min(max_widths[c], width))
Clamp(lo, hi, w) == Max2(lo, Min2(hi, w))

\* min_widths / max_widths, <<>> standing for None.
EffectiveWidths(given, n, default) ==
    IF given = <<>> THEN [c \in 1..n |-> default] ELSE given

\* col_widths before the total is adjusted.
ColWidths(headers, rows, minW, maxW) ==
    LET n  == Len(headers)
        lo == EffectiveWidths(minW, n, DefaultMinWidth)
        hi == EffectiveWidths(maxW, n, DefaultMaxWidth)
    IN  [c \in 1..n |->
            Clamp(lo[c], hi[c],
                  Max2(TextWidth(headers[c]) + HeaderPadding,
                       MaxDataWidth(rows, c, 0)))]

RECURSIVE Gcd(_, _)
Gcd(a, b) == IF b = 0 THEN a ELSE Gcd(b, a % b)

\* The exact value n / d of a float product, in lowest terms.
Fraction(n, d) == [num |-> n \div Gcd(n, d), den |-> d \div Gcd(n, d)]

\* A variant of the adjustment that scales to the total in every case.
ScaleAlways(ws, total) ==
    [c \in 1..Len(ws) |-> Fraction(ws[c] * total, SumSeq(ws))]

\* The adjustment to total_width: w * (total_width / current_total) for every
\* column when the sum exceeds the total, else the widths as they are.
ScaleWidths(ws, total) ==
    IF SumSeq(ws) > total
    THEN [c \in 1..Len(ws) |-> Fraction(ws[c] * total, SumSeq(ws))]
    ELSE [c \in 1..Len(ws) |-> [num |-> ws[c], den |-> 1]]

\* The texts of the header and data cells.
CellTexts == {<<"C">>, <<"L">>, <<"C", "C", "L">>}

\* Tables of one and of two columns.
ColumnCounts == {1, 2}

\* (min, max) limits of one column; the last has min > max.
ColumnLimits == {<<40, 60>>, <<80, 100>>, <<80, 60>>}

TotalWidths == {120, 1550}

\* Headers "xu hao", "shi gong bu wei" with the one data row "1", an
\* eleven-ideograph location, and the Chinese builder's first two limits.
ScenarioInput ==
    [headers |-> << <<"C", "C">>, <<"C", "C", "C", "C">> >>,
     rows    |-> << << <<"L">>,
                       <<"C", "C", "C", "C", "C", "C", "C", "C", "C", "C", "C">> >> >>,
     minW    |-> <<100, 200>>,
     maxW    |-> <<150, 350>>,
     total   |-> 1550]

\* A text of n characters c.
Repeat(c, n) == [i \in 1..n |-> c]

\* The call made by create_chinese_table: its five headers and limits and
\* total 15.5, for one record with seq 1, a location of 14 ideographs, a
\* content of 28, the quantity "5m" and a shift of 10.
ChineseBuilderInput ==
    [headers |-> <<Repeat("C", 2), Repeat("C", 4), Repeat("C", 4),
                   Repeat("C", 4), Repeat("C", 2)>>,
     rows    |-> << <<Repeat("L", 1), Repeat("C", 14), Repeat("C", 28),
                      Repeat("L", 2), Repeat("C", 10)>> >>,
     minW    |-> <<100, 200, 400, 200, 150>>,
     maxW    |-> <<150, 350, 700, 300, 250>>,
     total   |-> 1550]

DataRowChoices(n) == UNION {[1..k -> CellTexts] : k \in 0..n}

\* The limits of a table of n columns: explicit lists, or None for both.
LimitChoices(n) ==
    {<<[c \in 1..n |-> lim[c][1]], [c \in 1..n |-> lim[c][2]]>> :
        lim \in [1..n -> ColumnLimits]} \cup {<< <<>>, <<>> >>}

RowLists(n) == UNION {[1..m -> DataRowChoices(n)] : m \in 0..MaxDataRows}

\* auto_fit_column_widths(table, headers, data_rows, min_widths, max_widths,
\* total_width): the widths handed to set_column_widths.
AutoFitColumnWidths ==
    /\ est.pc = "input"
    /\ LET i   == est.in
           pre == ColWidths(i.headers, i.rows, i.minW, i.maxW)
       IN  est' = [pc |-> "done", in |-> i,
                   textW |-> [c \in 1..Len(i.headers) |-> TextWidth(i.headers[c])],
                   pre |-> pre,
                   final |-> ScaleWidths(pre, i.total)]
    /\ UNCHANGED <<insVars, tblVars, wx, conc, cls, upd, dw>>

WidthInit ==
    /\ \/ est = [pc |-> "input", in |-> ScenarioInput]
       \/ est = [pc |-> "input", in |-> ChineseBuilderInput]
       \/ \E n \in ColumnCounts :
            \E h \in [1..n -> CellTexts], r \in RowLists(n),
               l \in LimitChoices(n), t \in TotalWidths :
                est = [pc |-> "input",
                       in |-> [headers |-> h, rows |-> r, minW |-> l[1],
                               maxW |-> l[2], total |-> t]]
    /\ InsIdle /\ TblIdle
    /\ wx = Idle /\ conc = Idle /\ cls = Idle /\ upd = Idle /\ dw = Idle

WidthNext == AutoFitColumnWidths

SpecWidth == WidthInit /\ [][WidthNext]_vars

(* ===================== claims about the inserter ====================== *)
\* The insert has been called and has returned in this round.
Returned == result # "none"

\* Ids of the blocks of d.
Ids(d) == {d[i].id : i \in 1..Len(d)}

\* Indices of the paragraphs of d whose text contains head.
ParasContaining(d, head) ==
    {i \in 1..Len(d) : d[i].kind = "p" /\ Contains(d[i].text, head)}

\* Indices of the tables of d after index a.
TablesAfter(d, a) == {j \in (a + 1)..Len(d) : d[j].kind = "tbl"}

\* The entries k of the heading list for which the first paragraph that
\* contains heads[k] has a table somewhere after it.
DeletableHeads(d, heads) ==
    {k \in 1..Len(heads) :
        /\ ParasContaining(d, heads[k]) # {}
        /\ TablesAfter(d, Min(ParasContaining(d, heads[k]))) # {}}

\* C1 (as stated): with delete_existing set, a table that was in the document
\* before the call and is gone after it was the immediate next sibling of the
\* matched heading paragraph; a table further down is never removed.
C1_OnlyImmediateSibling ==
    (Returned /\ deleteExisting) =>
        \A i \in 1..Len(docAtCall) :
            ( /\ docAtCall[i].kind = "tbl"
              /\ docAtCall[i].id # newTable
              /\ docAtCall[i].id \notin Ids(doc) )
            => ( /\ delAnchor # 0
                 /\ i = IndexOf(docAtCall, delAnchor) + 1 )

\* C1 (amended): the deletion step removes at most one block and only with
\* delete_existing set; the block is the first table that follows, at any
\* distance, the first paragraph containing the earliest listed heading for
\* which such a table exists (paragraphs in between are skipped), and it is
\* removed whenever there is one.
C1_DeletesFirstTableAfterHeading ==
    Returned =>
        LET heads == PossibleHeadings(heading)
            K     == DeletableHeads(docAtCall, heads)
        IN  /\ Ids(docAtCall) \ Ids(doc) \subseteq {deleted}
            /\ (~deleteExisting \/ K = {}) => (deleted = 0 /\ delAnchor = 0)
            /\ (deleteExisting /\ K # {}) =>
                 LET a == Min(ParasContaining(docAtCall, heads[Min(K)]))
                     j == Min(TablesAfter(docAtCall, a))
                 IN  /\ delAnchor = docAtCall[a].id
                     /\ deleted = docAtCall[j].id
                     /\ \A m \in (a + 1)..(j - 1) : docAtCall[m].kind = "p"

\* C1 witness: a table that did not immediately follow the heading (a
\* paragraph lies in between) was removed by the deletion step.
C1_Witness ==
    /\ Returned /\ deleteExisting
    /\ deleted # 0 /\ deleted # newTable
    /\ IndexOf(docAtCall, deleted) > IndexOf(docAtCall, delAnchor) + 1
    /\ deleted \notin Ids(doc)

\* C2 (as stated): whenever some paragraph contains the primary heading
\* text, the anchor of the insertion is the first such paragraph, even if an
\* earlier paragraph contains an alias.
C2_PrimaryBeforeAlias ==
    (result = "true" /\ ParasContaining(docAtCall, heading) # {}) =>
        insAnchor = docAtCall[Min(ParasContaining(docAtCall, heading))].id

\* C3: whenever the insert reports success, the new table is the immediate
\* successor of the anchor paragraph and occurs exactly once in the block
\* sequence.
C3_TableFollowsAnchorOnce ==
    result = "true" =>
        LET a == IndexOf(doc, insAnchor)
        IN  /\ a # 0
            /\ doc[a].kind = "p"
            /\ a < Len(doc)
            /\ doc[a + 1] = Table(newTable)
            /\ Cardinality({i \in 1..Len(doc) : doc[i].id = newTable}) = 1

\* C3 witness: a successful insert without deletion, where another table
\* followed the anchor at the call and the new table came from the end.
C3_Witness ==
    /\ result = "true" /\ ~deleteExisting
    /\ LET a == IndexOf(docAtCall, insAnchor)
       IN  /\ a + 1 < Len(docAtCall)
           /\ docAtCall[a + 1].kind = "tbl"
           /\ docAtCall[a + 1].id # newTable
    /\ doc[IndexOf(doc, insAnchor) + 1].id = newTable

\* C4 (as stated): with delete_existing set, the paragraph whose following
\* table was deleted is the paragraph after which the new table is inserted.
C4_SameAnchor ==
    (Returned /\ deleteExisting /\ delAnchor # 0) => insAnchor = delAnchor

\* C5: if no paragraph contains the heading text or any alias, the insert
\* returns False and the block sequence is exactly as it was at the call.
C5_NotFoundLeavesDocument ==
    ( /\ Returned
      /\ \A k \in 1..Len(PossibleHeadings(heading)) :
            ParasContaining(docAtCall, PossibleHeadings(heading)[k]) = {} )
    => (result = "false" /\ doc = docAtCall /\ deleted = 0)

\* C5 witness: a not-found call with delete_existing set on a document that
\* holds paragraphs and a table of its own besides the new one.
C5_Witness ==
    /\ result = "false" /\ deleteExisting
    /\ doc = docAtCall
    /\ \E i, j \in 1..Len(docAtCall) :
          /\ i < j
          /\ docAtCall[i].kind = "p"
          /\ docAtCall[j].kind = "tbl" /\ docAtCall[j].id # newTable

\* C6 (as stated): when the generate operation (which calls the insert with
\* delete_existing set) does not find the heading, the saved document holds
\* exactly the template's blocks (no generated table anywhere).
C6_NotFoundSavesTemplate ==
    (pc = "saved" /\ deleteExisting /\ result = "false") => doc = template

\* "Construction Activities", the last fallback heading.
AliasActivities == <<"Construction", "Activities">>

\* C7 (as stated): with the Chinese heading absent and a paragraph containing
\* "Construction Activities" present, the lookup matches that paragraph.
C7_AliasForAnyHeading ==
    ( /\ Returned
      /\ heading = CnHeading
      /\ ParasContaining(docAtCall, CnHeading) = {}
      /\ ParasContaining(docAtCall, AliasActivities) # {} )
    => ( /\ result = "true"
         /\ insAnchor = docAtCall[Min(ParasContaining(docAtCall, AliasActivities))].id )

\* C7 (amended): the fallback headings exist only for the heading "Daily
\* Construction Statistics Table".  With that heading and the earlier
\* fallbacks absent and "Construction Activities" present, the first paragraph
\* containing it is matched, a table immediately following it is deleted and
\* the new table is inserted after it.  With the Chinese heading absent the
\* call reports not-found and changes nothing, whatever else is present.
C7_AliasOnlyForEnglishHeading ==
    (Returned /\ deleteExisting) =>
        /\ (heading = CnHeading /\ ParasContaining(docAtCall, CnHeading) = {})
             => (result = "false" /\ doc = docAtCall)
        /\ ( /\ heading = EnHeading
             /\ \A k \in 1..3 : ParasContaining(docAtCall, PossibleHeadings(heading)[k]) = {}
             /\ ParasContaining(docAtCall, AliasActivities) # {} )
             => LET a == Min(ParasContaining(docAtCall, AliasActivities))
                IN  /\ result = "true"
                    /\ insAnchor = docAtCall[a].id
                    /\ docAtCall[a + 1].kind = "tbl" =>
                          (docAtCall[a + 1].id = newTable \/ docAtCall[a + 1].id \notin Ids(doc))
                    /\ doc[IndexOf(doc, insAnchor) + 1] = Table(newTable)

\* C7 witness: English heading absent, match through "Construction
\* Activities", the table right after it replaced by the new one.
C7_Witness ==
    /\ result = "true" /\ deleteExisting /\ heading = EnHeading
    /\ \A k \in 1..3 : ParasContaining(docAtCall, PossibleHeadings(heading)[k]) = {}
    /\ LET a == IndexOf(docAtCall, insAnchor)
       IN  /\ a + 1 < Len(docAtCall)
           /\ docAtCall[a + 1].kind = "tbl"
           /\ docAtCall[a + 1].id \notin Ids(doc)
    /\ doc[IndexOf(doc, insAnchor) + 1] = Table(newTable)

(* ================== claims about the table builders =================== *)
\* The maximal runs of consecutive records sharing one seq, as <<first, last>>.
MaximalRuns(d) ==
    {r \in (1..Len(d)) \X (1..Len(d)) :
        /\ r[1] <= r[2]
        /\ d[r[1]].seq # NoSeq
        /\ \A i \in r[1]..r[2] : d[i].seq = d[r[1]].seq
        /\ (r[1] = 1 \/ d[r[1] - 1].seq # d[r[1]].seq)
        /\ (r[2] = Len(d) \/ d[r[2] + 1].seq # d[r[1]].seq)}

\* The merge spans of column col, as <<first, last>>.
SpansOf(t, col) ==
    {<<t.spans[k].first, t.spans[k].last>> :
        k \in {m \in 1..Len(t.spans) : t.spans[m].col = col}}

\* C8 (as stated): in both builders the merges of column 0 and of column 1
\* are exactly the maximal runs of two or more consecutive records sharing a
\* seq: no span holds a row of another seq, and every such run is merged.
C8_MergesAreMaximalRuns ==
    tpc = "built" =>
        \A col \in {0, 1} :
            SpansOf(table, col) = {r \in MaximalRuns(data) : r[2] > r[1]}

\* C9 (as stated): after one build no two merge spans of the same column
\* share a row.
C9_NoOverlappingSpans ==
    tpc = "built" =>
        \A i, j \in 1..Len(table.spans) :
            (i # j /\ table.spans[i].col = table.spans[j].col) =>
                (\/ table.spans[i].last < table.spans[j].first
                 \/ table.spans[j].last < table.spans[i].first)

\* C10 (as stated): within every merged span the builder writes key and
\* location text into the first row only; the cells of the other rows of the
\* span hold no text.
C10_OnlyFirstRowWritten ==
    tpc = "built" =>
        \A k \in 1..Len(table.spans) :
            \A r \in (table.spans[k].first + 1)..table.spans[k].last :
                table.text[<<r, table.spans[k].col>>] = <<>>


(* ================= claims about the column-width estimator ============= *)
EstDone == est.pc = "done"

EstCols == 1..Len(est.in.headers)

EstLo == EffectiveWidths(est.in.minW, Len(est.in.headers), DefaultMinWidth)

EstHi == EffectiveWidths(est.in.maxW, Len(est.in.headers), DefaultMaxWidth)

SetMax(S) == CHOOSE m \in S : \A x \in S : x <= m

\* cell width + data padding of every data row that has column c
DataWidths(c) ==
    {TextWidth(est.in.rows[k][c]) + DataPadding :
        k \in {k \in 1..Len(est.in.rows) : c <= Len(est.in.rows[k])}}

\* max(header width + header padding, max over the data rows)
RawWidth(c) ==
    Max2(TextWidth(est.in.headers[c]) + HeaderPadding, SetMax(DataWidths(c) \cup {0}))

InInterval(lo, hi, w) == IF w < lo THEN lo ELSE IF w > hi THEN hi ELSE w

\* C11: of two header strings of equal length, the one with more CJK
\* ideographs has the strictly larger per-string width in the estimator.
C11_MoreCjkIsWider ==
    EstDone =>
        \A i, j \in EstCols :
            (/\ Len(est.in.headers[i]) = Len(est.in.headers[j])
             /\ CnCount(est.in.headers[i]) > CnCount(est.in.headers[j]))
            => est.textW[i] > est.textW[j]

\* C12: before scaling, a column whose minimum does not exceed its maximum
\* has the width max(header width + header padding, max over data rows of
\* cell width + data padding) clamped into [minimum, maximum], so it lies in
\* that interval; rows shorter than the column index contribute nothing.
C12_PreScaleWidthIsClampedMax ==
    EstDone =>
        \A c \in EstCols :
            EstLo[c] <= EstHi[c] =>
                /\ est.pre[c] = InInterval(EstLo[c], EstHi[c], RawWidth(c))
                /\ EstLo[c] <= est.pre[c]
                /\ est.pre[c] <= EstHi[c]

\* A two-column call with limits in order, a data row that lacks column 2
\* and one that has it, a column raised to its minimum and a column cut to
\* its maximum.
C12_Witness ==
    /\ EstDone
    /\ Len(est.in.headers) = 2
    /\ \A c \in EstCols : EstLo[c] <= EstHi[c]
    /\ \E k \in 1..Len(est.in.rows) : Len(est.in.rows[k]) = 1
    /\ \E k \in 1..Len(est.in.rows) : Len(est.in.rows[k]) = 2
    /\ \E c \in EstCols : RawWidth(c) < EstLo[c] /\ est.pre[c] = EstLo[c]
    /\ \E c \in EstCols : RawWidth(c) > EstHi[c] /\ est.pre[c] = EstHi[c]

\* C13: when the pre-scale widths sum to more than the total, every final
\* width is its pre-scale width times total / sum (so proportions are kept);
\* otherwise the final widths are the pre-scale widths; and no final width
\* exceeds its pre-scale width.
C13_UniformShrinkOnly ==
    EstDone =>
        LET sum == SumSeq(est.pre) IN
        /\ sum > est.in.total =>
              /\ \A c \in EstCols :
                    est.final[c].num * sum = est.pre[c] * est.in.total * est.final[c].den
              /\ \A c, d \in EstCols :
                    est.final[c].num * est.final[d].den * est.pre[d]
                        = est.final[d].num * est.final[c].den * est.pre[c]
        /\ sum <= est.in.total =>
              \A c \in EstCols : est.final[c].num = est.pre[c] * est.final[c].den
        /\ \A c \in EstCols : est.final[c].num <= est.pre[c] * est.final[c].den

\* Two columns of different pre-scale widths whose sum exceeds the total.
C13_Witness ==
    /\ EstDone
    /\ Len(est.in.headers) = 2
    /\ est.pre[1] # est.pre[2]
    /\ SumSeq(est.pre) > est.in.total
    /\ \A c \in EstCols : est.final[c].num < est.pre[c] * est.final[c].den

\* C14: in the two-column scenario with limits [1.0, 2.0] / [1.5, 3.5] and
\* total 15.5 the second column comes out at exactly 3.5.
C14_ScenarioSecondColumnAtMaximum ==
    (EstDone /\ est.in = ScenarioInput) =>
        est.final[2].num = 350 * est.final[2].den


(* ========================= the weather lookup ========================== *)
\* WEATHER_CODES: code -> <<Chinese name (transliterated), English name>>.
WEATHER_CODES ==
    (0 :> <<"Qing", "Clear">>) @@
    (1 :> <<"DaBuQingLang", "Mainly Clear">>) @@
    (2 :> <<"DuoYun", "Partly Cloudy">>) @@
    (3 :> <<"YinTian", "Overcast">>) @@
    (45 :> <<"YouWu", "Foggy">>) @@
    (48 :> <<"WuSong", "Depositing Rime Fog">>) @@
    (51 :> <<"XiaoMaoMaoYu", "Light Drizzle">>) @@
    (53 :> <<"MaoMaoYu", "Moderate Drizzle">>) @@
    (55 :> <<"DaMaoMaoYu", "Dense Drizzle">>) @@
    (61 :> <<"XiaoYu", "Slight Rain">>) @@
    (63 :> <<"ZhongYu", "Moderate Rain">>) @@
    (65 :> <<"DaYu", "Heavy Rain">>) @@
    (71 :> <<"XiaoXue", "Slight Snow">>) @@
    (73 :> <<"ZhongXue", "Moderate Snow">>) @@
    (75 :> <<"DaXue", "Heavy Snow">>) @@
    (80 :> <<"XiaoZhenYu", "Slight Rain Showers">>) @@
    (81 :> <<"ZhongZhenYu", "Moderate Rain Showers">>) @@
    (82 :> <<"DaZhenYu", "Violent Rain Showers">>) @@
    (95 :> <<"LeiBao", "Thunderstorm">>) @@
    (96 :> <<"LeiBaoBanXiaoBingBao", "Thunderstorm with Slight Hail">>) @@
    (99 :> <<"LeiBaoBanDaBingBao", "Thunderstorm with Heavy Hail">>)

\* The payload returned after the try block.
Fallback ==
    [weather_cn |-> "Qing", weather_en |-> "Sunny",
     temp_min |-> 18, temp_max |-> 28, success |-> FALSE]

\* A field of "daily" is [f |-> "missing"] (the key is absent), "null",
\* "empty" (the list []), "nullitem" (the list [null]) or "item" with the
\* number v (the list [v]).  The result of an expression of the try block
\* is a record with raise = TRUE when it raises.
\* daily.get(key, [default])[0]
GetFirst(field, default) ==
    CASE field.f = "missing"  -> [raise |-> FALSE, isNull |-> FALSE, v |-> default]
      [] field.f = "null"     -> [raise |-> TRUE]     \* None[0]: TypeError
      [] field.f = "empty"    -> [raise |-> TRUE]     \* [][0]: IndexError
      [] field.f = "nullitem" -> [raise |-> FALSE, isNull |-> TRUE]
      [] field.f = "item"     -> [raise |-> FALSE, isNull |-> FALSE, v |-> field.v]

\* int(round(t)) for a temperature t given in tenths of a degree: Python
\* rounds a half to the even neighbour.
RoundHalfEven(t) ==
    LET q == t \div 10
        r == t % 10
    IN  IF r < 5 THEN q
        ELSE IF r > 5 THEN q + 1
        ELSE IF q % 2 = 0 THEN q ELSE q + 1

\* WEATHER_CODES.get(weather_code, ("Qing", "Clear"))
LookupCode(code) ==
    IF ~code.isNull /\ code.v \in DOMAIN WEATHER_CODES
    THEN WEATHER_CODES[code.v]
    ELSE <<"Qing", "Clear">>

\* The statements of the try block after a 200 response with a JSON object
\* whose "daily" is the object d.
ParseDaily(d) ==
    LET code == GetFirst(d.weather_code, 0)
        tmin == GetFirst(d.temperature_2m_min, 200)
        tmax == GetFirst(d.temperature_2m_max, 300)
    IN  IF code.raise \/ tmin.raise \/ tmax.raise
        THEN [raise |-> TRUE]
        ELSE IF tmin.isNull \/ tmax.isNull
        THEN [raise |-> TRUE]                     \* round(None): TypeError
        ELSE [raise |-> FALSE,
              ret |-> [weather_cn |-> LookupCode(code)[1],
                       weather_en |-> LookupCode(code)[2],
                       temp_min |-> RoundHalfEven(tmin.v),
                       temp_max |-> RoundHalfEven(tmax.v),
                       success |-> TRUE]]

NoDaily ==
    [weather_code |-> [f |-> "missing"], temperature_2m_min |-> [f |-> "missing"],
     temperature_2m_max |-> [f |-> "missing"]]

\* The try block: an exception, a return, or falling out of the if.
TryBlock(resp) ==
    IF resp.kind = "exception" THEN [raise |-> TRUE]  \* http_requests.get raises
    ELSE IF resp.status # 200 THEN [raise |-> FALSE, fell |-> TRUE]
    ELSE CASE resp.body.kind = "notjson"   -> [raise |-> TRUE]   \* response.json()
           [] resp.body.kind = "nonobject" -> [raise |-> TRUE]   \* data.get
           [] resp.body.kind = "object" ->
                CASE resp.body.daily.kind = "missing" -> ParseDaily(NoDaily)
                  [] resp.body.daily.kind = "null"    -> [raise |-> TRUE]  \* None.get
                  [] resp.body.daily.kind = "object"  ->
                        ParseDaily(resp.body.daily.fields)

\* get_pakbeng_weather(date): the returned payload.
GetPakbengWeatherResult(resp) ==
    LET t == TryBlock(resp)
    IN  IF ~t.raise /\ "ret" \in DOMAIN t THEN t.ret ELSE Fallback

BrokenFields == {[f |-> "missing"], [f |-> "null"], [f |-> "empty"], [f |-> "nullitem"]}

\* Weather codes 0, 3, 61 and the unlisted 7.
CodeFields == BrokenFields \cup {[f |-> "item", v |-> c] : c \in {0, 3, 61, 7}}

\* Temperatures in tenths of a degree: 18.7, 24.5, 25.5.
TempFields == BrokenFields \cup {[f |-> "item", v |-> t] : t \in {187, 245, 255}}

Dailies ==
    {[kind |-> "missing"], [kind |-> "null"]} \cup
    {[kind |-> "object",
      fields |-> [weather_code |-> c, temperature_2m_min |-> lo,
                  temperature_2m_max |-> hi]] :
        c \in CodeFields, lo \in TempFields, hi \in TempFields}

Bodies ==
    {[kind |-> "notjson"], [kind |-> "nonobject"]} \cup
    {[kind |-> "object", daily |-> d] : d \in Dailies}

Responses ==
    {[kind |-> "exception"]} \cup
    {[kind |-> "response", status |-> s, body |-> b] :
        s \in {200, 404, 500}, b \in Bodies}

GetPakbengWeather ==
    /\ wx.pc = "request"
    /\ wx' = [pc |-> "returned", resp |-> wx.resp,
              ret |-> GetPakbengWeatherResult(wx.resp)]
    /\ UNCHANGED <<insVars, tblVars, est, conc, cls, upd, dw>>

WeatherInit ==
    /\ wx \in {[pc |-> "request", resp |-> r] : r \in Responses}
    /\ InsIdle /\ TblIdle
    /\ est = Idle /\ conc = Idle /\ cls = Idle /\ upd = Idle /\ dw = Idle

WeatherNext == GetPakbengWeather

SpecWeather == WeatherInit /\ [][WeatherNext]_vars

(* ===================== claims about the weather lookup ================= *)
FieldParsed(field) == field.f = "item"

\* The response has status 200 and a JSON object whose "daily" object holds
\* a non-null first element for each of the three fields.
FullyParsed(resp) ==
    /\ resp.kind = "response"
    /\ resp.status = 200
    /\ resp.body.kind = "object"
    /\ resp.body.daily.kind = "object"
    /\ FieldParsed(resp.body.daily.fields.weather_code)
    /\ FieldParsed(resp.body.daily.fields.temperature_2m_min)
    /\ FieldParsed(resp.body.daily.fields.temperature_2m_max)

\* C15: the weather lookup always returns; on every failure path (request
\* exception, non-200 status, missing, empty or null fields) it returns the
\* static fallback with success = False, and success = True only when a 200
\* response was fully parsed.
C15_FailureGivesFallback ==
    wx.pc = "returned" =>
        /\ ~FullyParsed(wx.resp) => wx.ret = Fallback
        /\ wx.ret.success => FullyParsed(wx.resp)

(* =================== concurrent generate invocations =================== *)
\* generate_from_template is a coroutine without any await: once the event
\* loop of uvicorn.run(app) has started it, it runs to its return before the
\* loop starts another request.  The steps below are its statements in
\* order; conc.running is the invocation the loop is executing (0: none).
Invocations == {1, 2}

NoTemplate == [given |-> FALSE, blocks |-> <<>>]

Given(blocks) == [given |-> TRUE, blocks |-> blocks]

\* request.cn_template_base64, request.en_template_base64
CnTemplateInputs ==
    {NoTemplate,
     Given(<<Paragraph(1, CnHeading), Table(2)>>),
     Given(<<Paragraph(1, <<"Remarks">>)>>)}

EnTemplateInputs ==
    {NoTemplate, Given(<<Paragraph(1, EnHeading), Table(2)>>)}

\* DEFAULT_CN_TEMPLATE, DEFAULT_EN_TEMPLATE: the files _init_templates left
\* at import time; no request writes them.
TemplateFiles ==
    {[cn |-> NoTemplate, en |-> NoTemplate],
     [cn |-> Given(<<Paragraph(1, <<"Remarks">>), Paragraph(2, CnHeading)>>),
      en |-> Given(<<Paragraph(1, EnHeading)>>)]}

\* One request and the clock it meets: the day of get_yesterday_date.
Requests ==
    [cnTpl : CnTemplateInputs, enTpl : EnTemplateInputs,
     cnRows : BOOLEAN, enRows : BOOLEAN, day : {1, 2}]

\* The table that invocation i builds for a language (0: cn, 1: en).
ConcTableId(i, lang) == 100 + 2 * i + lang

\* A Document instance: the date stamp of its first table and its blocks.
Doc(blocks) == [stamp |-> 0, blocks |-> blocks]

\* A variant that hands out one module-wide Document instance.
SharedDocument(heap, d) ==
    IF heap = <<>>
    THEN [heap |-> <<d>>, ref |-> 1]
    ELSE [heap |-> heap, ref |-> 1]

\* Document(...): a new instance on the heap.
NewDocument(heap, d) == [heap |-> Append(heap, d), ref |-> Len(heap) + 1]

\* The template a language's document is loaded from.
CnSource(req, files) ==
    IF req.cnTpl.given THEN req.cnTpl
    ELSE IF files.cn.given THEN files.cn
    ELSE NoTemplate

EnSource(req, files) ==
    IF req.enTpl.given THEN req.enTpl
    ELSE IF files.en.given THEN files.en
    ELSE NoTemplate

\* cn_doc = Document(...), or Document() with the heading added.
LoadedCn(req, files) ==
    IF CnSource(req, files).given
    THEN Doc(CnSource(req, files).blocks)
    ELSE Doc(<<Paragraph(1, CnHeading)>>)

LoadedEn(req, files) ==
    IF EnSource(req, files).given
    THEN Doc(EnSource(req, files).blocks)
    ELSE Doc(<<Paragraph(1, EnHeading)>>)

\* create_*_table followed by insert_table_after_heading on the blocks.
BuildAndInsert(blocks, head, tid) ==
    InsertTableAfterHeadingResult(Append(blocks, Table(tid)), head, tid, TRUE).doc

\* The statements between loading and saving the Chinese document.
FilledCn(d, req, files, i) ==
    IF CnSource(req, files).given
    THEN [stamp |-> req.day,
          blocks |-> IF req.cnRows
                     THEN BuildAndInsert(d.blocks, CnHeading, ConcTableId(i, 0))
                     ELSE d.blocks]
    ELSE [stamp |-> d.stamp,
          blocks |-> IF req.cnRows
                     THEN Append(d.blocks, Table(ConcTableId(i, 0)))
                     ELSE d.blocks]

\* The statements between loading and saving the English document.
FilledEn(d, req, files, i) ==
    IF EnSource(req, files).given
    THEN [stamp |-> req.day,
          blocks |-> IF req.enRows
                     THEN BuildAndInsert(d.blocks, EnHeading, ConcTableId(i, 1))
                     ELSE d.blocks]
    ELSE [stamp |-> d.stamp,
          blocks |-> IF req.enRows
                     THEN Append(d.blocks, Table(ConcTableId(i, 1)))
                     ELSE d.blocks]

\* if english_rows or request.en_template_base64 or os.path.exists(..)
EnglishWanted(req, files) == req.enRows \/ EnSource(req, files).given

Me(i) == conc.inv[i]

\* The event loop starts the coroutine of a queued request.
Begin(i) ==
    /\ conc.pc = "serving" /\ conc.running = 0
    /\ Me(i).pc = "queued"
    /\ conc' = [conc EXCEPT !.running = i, !.inv[i].pc = "cn_load"]
    /\ UNCHANGED <<insVars, tblVars, est, wx, cls, upd, dw>>

LoadCn(i) ==
    /\ conc.pc = "serving" /\ conc.running = i
    /\ Me(i).pc = "cn_load"
    /\ LET n == NewDocument(conc.heap, LoadedCn(Me(i).req, conc.files))
       IN  conc' = [conc EXCEPT !.heap = n.heap, !.inv[i].cnDoc = n.ref,
                                !.inv[i].pc = "cn_fill"]
    /\ UNCHANGED <<insVars, tblVars, est, wx, cls, upd, dw>>

FillCn(i) ==
    /\ conc.pc = "serving" /\ conc.running = i
    /\ Me(i).pc = "cn_fill"
    /\ conc' = [conc EXCEPT
                  !.heap[Me(i).cnDoc] =
                      FilledCn(conc.heap[Me(i).cnDoc], Me(i).req, conc.files, i),
                  !.inv[i].pc = "cn_save"]
    /\ UNCHANGED <<insVars, tblVars, est, wx, cls, upd, dw>>

SaveCn(i) ==
    /\ conc.pc = "serving" /\ conc.running = i
    /\ Me(i).pc = "cn_save"
    /\ conc' = [conc EXCEPT
                  !.inv[i].cnOut = [saved |-> TRUE, doc |-> conc.heap[Me(i).cnDoc]],
                  !.inv[i].pc = IF EnglishWanted(Me(i).req, conc.files)
                                THEN "en_load" ELSE "return"]
    /\ UNCHANGED <<insVars, tblVars, est, wx, cls, upd, dw>>

LoadEn(i) ==
    /\ conc.pc = "serving" /\ conc.running = i
    /\ Me(i).pc = "en_load"
    /\ LET n == NewDocument(conc.heap, LoadedEn(Me(i).req, conc.files))
       IN  conc' = [conc EXCEPT !.heap = n.heap, !.inv[i].enDoc = n.ref,
                                !.inv[i].pc = "en_fill"]
    /\ UNCHANGED <<insVars, tblVars, est, wx, cls, upd, dw>>

FillEn(i) ==
    /\ conc.pc = "serving" /\ conc.running = i
    /\ Me(i).pc = "en_fill"
    /\ conc' = [conc EXCEPT
                  !.heap[Me(i).enDoc] =
                      FilledEn(conc.heap[Me(i).enDoc], Me(i).req, conc.files, i),
                  !.inv[i].pc = "en_save"]
    /\ UNCHANGED <<insVars, tblVars, est, wx, cls, upd, dw>>

SaveEn(i) ==
    /\ conc.pc = "serving" /\ conc.running = i
    /\ Me(i).pc = "en_save"
    /\ conc' = [conc EXCEPT
                  !.inv[i].enOut = [saved |-> TRUE, doc |-> conc.heap[Me(i).enDoc]],
                  !.inv[i].pc = "return"]
    /\ UNCHANGED <<insVars, tblVars, est, wx, cls, upd, dw>>

\* return results: the coroutine ends and the loop is free again.
Return(i) ==
    /\ conc.pc = "serving" /\ conc.running = i
    /\ Me(i).pc = "return"
    /\ conc' = [conc EXCEPT !.running = 0, !.inv[i].pc = "done"]
    /\ UNCHANGED <<insVars, tblVars, est, wx, cls, upd, dw>>

ConcurrentInit ==
    /\ \E r1 \in Requests, r2 \in Requests, f \in TemplateFiles :
           conc = [pc |-> "serving", files |-> f, running |-> 0, heap |-> <<>>,
                   inv |-> [i \in Invocations |->
                               [pc |-> "queued",
                                req |-> IF i = 1 THEN r1 ELSE r2,
                                cnDoc |-> 0, enDoc |-> 0,
                                cnOut |-> [saved |-> FALSE, doc |-> Doc(<<>>)],
                                enOut |-> [saved |-> FALSE, doc |-> Doc(<<>>)]]]]
    /\ InsIdle /\ TblIdle
    /\ est = Idle /\ wx = Idle /\ cls = Idle /\ upd = Idle /\ dw = Idle

ConcurrentNext ==
    \/ \E i \in Invocations : Begin(i)
    \/ \E i \in Invocations : LoadCn(i)
    \/ \E i \in Invocations : FillCn(i)
    \/ \E i \in Invocations : SaveCn(i)
    \/ \E i \in Invocations : LoadEn(i)
    \/ \E i \in Invocations : FillEn(i)
    \/ \E i \in Invocations : SaveEn(i)
    \/ \E i \in Invocations : Return(i)

SpecConcurrent == ConcurrentInit /\ [][ConcurrentNext]_vars

(* ================ claims about concurrent invocations ================== *)
\* The documents an invocation produces when it runs alone.
AloneCn(req, files, i) == FilledCn(LoadedCn(req, files), req, files, i)

AloneEn(req, files, i) == FilledEn(LoadedEn(req, files), req, files, i)

InHandler(i) == conc.inv[i].pc \notin {"queued", "done"}

DocRefs(i) == {conc.inv[i].cnDoc, conc.inv[i].enDoc} \ {0}

\* C16: every invocation owns its document instances, an invocation once
\* started runs to its return with no other invocation in between, and the
\* documents each invocation saves are those it saves when run alone on the
\* same request.
C16_InvocationsIndependent ==
    conc.pc = "serving" =>
        /\ \A i, j \in Invocations :
              i # j => /\ DocRefs(i) \cap DocRefs(j) = {}
                       /\ ~(InHandler(i) /\ InHandler(j))
        /\ \A i \in Invocations :
              /\ (conc.inv[i].cnDoc # 0 /\ conc.inv[i].enDoc # 0)
                     => conc.inv[i].cnDoc # conc.inv[i].enDoc
              /\ conc.inv[i].cnOut.saved =>
                     conc.inv[i].cnOut.doc = AloneCn(conc.inv[i].req, conc.files, i)
              /\ conc.inv[i].enOut.saved =>
                     conc.inv[i].enOut.doc = AloneEn(conc.inv[i].req, conc.files, i)
              /\ conc.inv[i].pc = "done" =>
                     /\ conc.inv[i].cnOut.saved
                     /\ conc.inv[i].enOut.saved
                            = EnglishWanted(conc.inv[i].req, conc.files)

\* Both invocations have returned, the second one having begun while the
\* first one's documents were on the heap, on the same template with
\* different rows and days.
C16_Witness ==
    /\ conc.pc = "serving"
    /\ \A i \in Invocations : conc.inv[i].pc = "done" /\ conc.inv[i].enOut.saved
    /\ Len(conc.heap) = 4
    /\ conc.inv[2].cnDoc < conc.inv[1].cnDoc
    /\ conc.inv[1].req.cnTpl = conc.inv[2].req.cnTpl
    /\ conc.inv[1].req.cnTpl.given
    /\ conc.inv[1].req.day # conc.inv[2].req.day
    /\ conc.inv[1].req.cnRows /\ ~conc.inv[2].req.cnRows
    /\ conc.inv[1].cnOut.doc # conc.inv[2].cnOut.doc

(* ========================= the line classifier ========================= *)
\* classify(rawLine) of the design, section 4.1.  A line is a sequence of
\* characters: "1" a digit, "." a delimiter after a number, ":" a colon,
\* "(" and ")" parentheses, "*" a markdown emphasis marker, " " a space or
\* tab, "x" any other character; the words of the keywords stand for
\* themselves.
LineChars ==
    {"1", ".", ":", "(", ")", "*", " ", "x",
     "RenYuan", "TouRu", "LeiJiGongChengLiang"}

\* The fixed keyword list, in its order.
Keywords ==
    << <<"RenYuan", "TouRu">>,
       <<"SheBei", "TouRu">>,
       <<"LeiJiGongChengLiang">>,
       <<"RenYuan", ":">>,
       <<"SheBei", ":">> >>

\* The cleaned copy: markdown markers, spaces and tabs stripped.
Cleaned(line) ==
    LET Keep(c) == c \notin {"*", " "} IN SelectSeq(line, Keep)

\* The number of digits the text starts with.
LeadingDigits(t) ==
    CHOOSE k \in 0..Len(t) :
        /\ \A j \in 1..k : t[j] = "1"
        /\ k < Len(t) => t[k + 1] # "1"

\* ^<digits><delimiter>
MatchesHeading(t) ==
    LET k == LeadingDigits(t) IN k >= 1 /\ k < Len(t) /\ t[k + 1] = "."

\* The keywords of the list that the text contains, by position in the list.
MatchedKeywords(t) == {i \in 1..Len(Keywords) : Contains(t, Keywords[i])}

\* ^[(]<digits>[)]
MatchesSubItem(t) ==
    /\ t # <<>>
    /\ Head(t) = "("
    /\ LET k == LeadingDigits(Tail(t))
       IN  k >= 1 /\ k + 1 < Len(t) /\ t[k + 2] = ")"

\* A variant that tests the keyword rule before the heading rule.
CategoryKeywordFirst(t) ==
    IF MatchedKeywords(t) # {} THEN "StatKeyword"
    ELSE IF MatchesHeading(t) THEN "SectionHeading"
    ELSE IF MatchesSubItem(t) THEN "SubItem"
    ELSE "Body"

\* The rules in their priority order.
Category(t) ==
    IF MatchesHeading(t) THEN "SectionHeading"
    ELSE IF MatchedKeywords(t) # {} THEN "StatKeyword"
    ELSE IF MatchesSubItem(t) THEN "SubItem"
    ELSE "Body"

\* The index in the line just after which the bold part of a keyword line
\* ends: the first colon of the line, else the last character of the first
\* listed keyword that matched.
SplitPoint(line) ==
    LET t      == Cleaned(line)
        colons == {i \in 1..Len(line) : line[i] = ":"}
        kw     == Keywords[Min(MatchedKeywords(t))]
        start  == Min({a \in 1..Len(t) :
                          /\ a + Len(kw) - 1 <= Len(t)
                          /\ SubSeq(t, a, a + Len(kw) - 1) = kw})
        kept   == {i \in 1..Len(line) : line[i] \notin {"*", " "}}
    IN  IF colons # {} THEN Min(colons)
        ELSE CHOOSE i \in kept :
                 Cardinality({j \in kept : j <= i}) = start + Len(kw) - 1

\* classify(rawLine): category, indent in character widths, segments.
Classify(line) ==
    LET cat == Category(Cleaned(line)) IN
    CASE cat = "SectionHeading" ->
            [category |-> cat, indent |-> 0,
             segments |-> <<[text |-> line, bold |-> TRUE]>>]
      [] cat = "StatKeyword" ->
            [category |-> cat, indent |-> 2,
             segments |-> <<[text |-> SubSeq(line, 1, SplitPoint(line)),
                             bold |-> TRUE],
                            [text |-> SubSeq(line, SplitPoint(line) + 1, Len(line)),
                             bold |-> FALSE]>>]
      [] OTHER ->
            [category |-> cat, indent |-> 2,
             segments |-> <<[text |-> line, bold |-> FALSE]>>]

\* An empty or whitespace-only line is skipped.
SkipBlankLine ==
    /\ cls.pc = "line"
    /\ \A i \in 1..Len(cls.line) : cls.line[i] = " "
    /\ cls' = [pc |-> "skipped", line |-> cls.line]
    /\ UNCHANGED <<insVars, tblVars, est, wx, conc, upd, dw>>

ClassifyLine ==
    /\ cls.pc = "line"
    /\ \E i \in 1..Len(cls.line) : cls.line[i] # " "
    /\ cls' = [pc |-> "classified", line |-> cls.line, first |-> Classify(cls.line)]
    /\ UNCHANGED <<insVars, tblVars, est, wx, conc, upd, dw>>

\* The same line is classified once more.
ClassifyAgain ==
    /\ cls.pc = "classified"
    /\ cls' = [pc |-> "again", line |-> cls.line, first |-> cls.first,
               second |-> Classify(cls.line)]
    /\ UNCHANGED <<insVars, tblVars, est, wx, conc, upd, dw>>

ClassifierInit ==
    /\ \E n \in 0..MaxLineLen : \E l \in [1..n -> LineChars] :
           cls = [pc |-> "line", line |-> l]
    /\ InsIdle /\ TblIdle
    /\ est = Idle /\ wx = Idle /\ conc = Idle /\ upd = Idle /\ dw = Idle

ClassifierNext == SkipBlankLine \/ ClassifyLine \/ ClassifyAgain

SpecClassifier == ClassifierInit /\ [][ClassifierNext]_vars

(* ==================== claims about the line classifier ================= *)
HeadingShape(t) ==
    \E k \in 1..(Len(t) - 1) : (\A j \in 1..k : t[j] = "1") /\ t[k + 1] = "."

HasKeyword(t) ==
    \E i \in 1..Len(Keywords) : \E a \in 1..Len(t) :
        /\ a + Len(Keywords[i]) - 1 <= Len(t)
        /\ \A j \in 1..Len(Keywords[i]) : t[a + j - 1] = Keywords[i][j]

SubItemShape(t) ==
    \E k \in 1..(Len(t) - 2) :
        t[1] = "(" /\ (\A j \in 2..(k + 1) : t[j] = "1") /\ t[k + 2] = ")"

\* C17: a classified line has exactly one of the four categories, chosen by
\* the priority SectionHeading > StatKeyword > SubItem > Body on its cleaned
\* text; a line that is both a numbered heading and contains a keyword is a
\* SectionHeading without indent and wholly bold; classifying the line again
\* gives the same category, indent and segments.
C17_PriorityAndDeterminism ==
    cls.pc \in {"classified", "again"} =>
        LET t == Cleaned(cls.line)
            r == cls.first
        IN  /\ r.category \in {"SectionHeading", "StatKeyword", "SubItem", "Body"}
            /\ (r.category = "SectionHeading") <=> HeadingShape(t)
            /\ (r.category = "StatKeyword") <=> (~HeadingShape(t) /\ HasKeyword(t))
            /\ (r.category = "SubItem")
                   <=> (~HeadingShape(t) /\ ~HasKeyword(t) /\ SubItemShape(t))
            /\ (r.category = "Body")
                   <=> (~HeadingShape(t) /\ ~HasKeyword(t) /\ ~SubItemShape(t))
            /\ (HeadingShape(t) /\ HasKeyword(t)) =>
                   /\ r.indent = 0
                   /\ r.segments = <<[text |-> cls.line, bold |-> TRUE]>>
            /\ cls.pc = "again" => cls.second = cls.first

\* A line with a markdown marker whose cleaned text is a numbered heading
\* and contains a keyword, classified twice.
C17_Witness ==
    /\ cls.pc = "again"
    /\ Cleaned(cls.line) # cls.line
    /\ HeadingShape(Cleaned(cls.line))
    /\ HasKeyword(Cleaned(cls.line))
    /\ cls.first.category = "SectionHeading"

(* =========================== the row updater =========================== *)
\* updateRow(table, label, todayValue, totalValue) of the design, section
\* 4.2.  A table is a sequence of rows, row 1 the header; a row is a
\* sequence of cell texts; columns are counted from 0 as in the design's
\* scenario (name = 1, today = 2, total = 3).
NoColumn == -1

\* The first column whose header text contains one of the words.
FirstColumnWith(header, words) ==
    LET hits == {c \in 1..Len(header) : \E w \in words : Contains(header[c], <<w>>)}
    IN  IF hits = {} THEN NoColumn ELSE Min(hits) - 1

\* A default column clamped to the columns the table has.
ClampColumn(c, n) == IF c < 0 THEN 0 ELSE IF c > n - 1 THEN n - 1 ELSE c

\* Column-role inference from the header row, with the fixed defaults.
ColumnRoles(header) ==
    LET n      == Len(header)
        name   == FirstColumnWith(header, {"XiangMu", "MingCheng"})
        today  == FirstColumnWith(header, {"JinRi", "RiWanCheng"})
        total  == FirstColumnWith(header, {"LeiJi"})
    IN  [name  |-> IF name # NoColumn THEN name ELSE ClampColumn(1, n),
         today |-> IF today # NoColumn THEN today
                   ELSE ClampColumn(IF n <= 5 THEN n - 2 ELSE 4, n),
         total |-> IF total # NoColumn THEN total
                   ELSE ClampColumn(IF n < 6 THEN n - 1 ELSE 5, n)]

\* A variant that takes every matching row.
TargetRowsAll(rows, nameCol, label) ==
    {r \in 2..Len(rows) : Contains(rows[r][nameCol + 1], label)}

\* The row to update: the first row below the header whose name cell
\* contains the label; the scan stops there.
TargetRows(rows, nameCol, label) ==
    LET matches == {r \in 2..Len(rows) : Contains(rows[r][nameCol + 1], label)}
    IN  IF matches = {} THEN {} ELSE {Min(matches)}

\* The empty value and the sentinel "-" leave a cell as it is.
PatchCell(row, col, value) ==
    IF value = <<>> \/ value = <<"-">> THEN row
    ELSE [row EXCEPT ![col + 1] = value]

\* updateRow on the rows of an existing table.
UpdateRow(rows, label, today, total) ==
    LET roles  == ColumnRoles(rows[1])
        target == TargetRows(rows, roles.name, label)
    IN  [rows |-> [r \in 1..Len(rows) |->
                      IF r \in target
                      THEN PatchCell(PatchCell(rows[r], roles.today, today),
                                     roles.total, total)
                      ELSE rows[r]],
         result |-> IF target = {} THEN "no-op" ELSE "applied"]

\* "xu hao | xiang mu ming cheng | jin ri wan cheng | lei ji wan cheng", a
\* header without any keyword, and a two-column header without keywords.
HeaderChoices ==
    { << <<"XuHao">>, <<"XiangMu", "MingCheng">>, <<"JinRi", "WanCheng">>,
         <<"LeiJi", "WanCheng">> >>,
      << <<"A">>, <<"B">>, <<"C">>, <<"D">>, <<"E">>, <<"F">> >>,
      << <<"A">>, <<"B">> >> }

\* The texts of the name cells of the data rows.
NameCells == {<<"C3", "JiaoZhu", "ZuoYe">>, <<"JiaoZhu">>, <<"KaiWa">>}

UpdateLabels == {<<"JiaoZhu">>, <<"HuiTian">>, <<"MingCheng">>}

UpdateValues == {<<>>, <<"-">>, <<"12">>}

\* The rows of a table: a header and data rows whose name cell sits in the
\* inferred name column; every other cell holds "old".
TableRows(header, names) ==
    <<header>> \o
    [r \in 1..Len(names) |->
        [c \in 1..Len(header) |->
            IF c = ColumnRoles(header).name + 1 THEN names[r] ELSE <<"old">>]]

UpdateRowCall ==
    /\ upd.pc = "call"
    /\ IF upd.exists
       THEN LET u == UpdateRow(upd.rows, upd.label, upd.today, upd.total)
            IN  upd' = [upd EXCEPT !.pc = "done", !.after = u.rows,
                                   !.result = u.result]
       ELSE upd' = [upd EXCEPT !.pc = "done", !.result = "no-op"]
    /\ UNCHANGED <<insVars, tblVars, est, wx, conc, cls, dw>>

UpdaterInit ==
    /\ \E h \in HeaderChoices, n \in 0..MaxUpdateRows, e \in BOOLEAN,
          l \in UpdateLabels, v \in UpdateValues, w \in UpdateValues :
         \E names \in [1..n -> NameCells] :
           /\ ~e => n = 0
           /\ upd = [pc |-> "call", exists |-> e,
                     rows |-> IF e THEN TableRows(h, names) ELSE <<>>,
                     after |-> IF e THEN TableRows(h, names) ELSE <<>>,
                     label |-> l, today |-> v, total |-> w, result |-> "none"]
    /\ InsIdle /\ TblIdle
    /\ est = Idle /\ wx = Idle /\ conc = Idle /\ cls = Idle /\ dw = Idle

UpdaterNext == UpdateRowCall

SpecUpdater == UpdaterInit /\ [][UpdaterNext]_vars

(* ====================== claims about the row updater =================== *)
UpdMatches ==
    {r \in 2..Len(upd.rows) :
        Contains(upd.rows[r][ColumnRoles(upd.rows[1]).name + 1], upd.label)}

UpdChanged == {r \in 1..Len(upd.rows) : upd.after[r] # upd.rows[r]}

Untouching(value) == value = <<>> \/ value = <<"-">>

\* C18: updateRow changes at most one row, the first row from the top whose
\* name cell contains the label; a today or total value of "" or "-" leaves
\* its cell as it was and another value becomes the cell's text; no cell
\* outside these two is changed; without a matching row or without a table
\* the call is a no-op.
C18_FirstMatchOnly ==
    upd.pc = "done" =>
        /\ upd.result \in {"applied", "no-op"}
        /\ Len(upd.after) = Len(upd.rows)
        /\ (~upd.exists \/ UpdMatches = {}) =>
               upd.after = upd.rows /\ upd.result = "no-op"
        /\ (upd.exists /\ UpdMatches # {}) =>
               LET m     == Min(UpdMatches)
                   roles == ColumnRoles(upd.rows[1])
               IN  /\ UpdChanged \subseteq {m}
                   /\ \A c \in 1..Len(upd.rows[m]) :
                          c \notin {roles.today + 1, roles.total + 1}
                              => upd.after[m][c] = upd.rows[m][c]
                   /\ (Untouching(upd.today) /\ roles.today # roles.total)
                          => upd.after[m][roles.today + 1] = upd.rows[m][roles.today + 1]
                   /\ (Untouching(upd.total) /\ roles.today # roles.total)
                          => upd.after[m][roles.total + 1] = upd.rows[m][roles.total + 1]
                   /\ (~Untouching(upd.today) /\ roles.today # roles.total)
                          => upd.after[m][roles.today + 1] = upd.today
                   /\ ~Untouching(upd.total)
                          => upd.after[m][roles.total + 1] = upd.total

\* The header with keywords, two rows that contain the label, a today value
\* and the sentinel as total: the first of the rows got the today value.
C18_Witness ==
    /\ upd.pc = "done"
    /\ upd.exists
    /\ ColumnRoles(upd.rows[1]) = [name |-> 1, today |-> 2, total |-> 3]
    /\ Cardinality(UpdMatches) >= 2
    /\ upd.today = <<"12">> /\ upd.total = <<"-">>
    /\ upd.rows[Min(UpdMatches)][2] = <<"C3", "JiaoZhu", "ZuoYe">>
    /\ UpdChanged = {Min(UpdMatches)}
    /\ upd.after[Min(UpdMatches)][3] = <<"12">>
    /\ upd.after[Min(UpdMatches)][4] = <<"old">>

(* ===================== the date and weather patches ==================== *)
\* update_document_date_weather on the texts of the document: the cells of
\* the first table (a sequence of rows, each a sequence of cell texts, or no
\* table) and the body paragraphs.  Columns are counted from 0.
\* date_cell, weather_cell and temp_cell by column.
PatchValues(isEnglish) ==
    (0 :> (IF isEnglish THEN <<"date_en">> ELSE <<"date_cn">>)) @@
    (1 :> (IF isEnglish THEN <<"weather_en">> ELSE <<"weather_cn">>)) @@
    (4 :> <<"temp_min", "/", "temp_max">>)

\* A variant of the guard that takes every cell to exist.
HasCellAlways(row, c) == TRUE

\* len(row.cells) > c
HasCell(row, c) == Len(row) > c

\* One guarded patch of row.cells[c]; st holds the rows and whether an
\* IndexError was raised, after which nothing more is executed.
PatchIfPresent(st, c, text) ==
    IF st.raised \/ ~HasCell(st.rows[2], c) THEN st
    ELSE IF c + 1 \in DOMAIN st.rows[2]
    THEN [st EXCEPT !.rows[2][c + 1] = text]
    ELSE [st EXCEPT !.raised = TRUE]

\* The block under "if doc.tables:": the three patches of the second row.
PatchFirstTable(hasTable, rows, isEnglish) ==
    LET v  == PatchValues(isEnglish)
        s0 == [rows |-> rows, raised |-> FALSE]
    IN  IF hasTable /\ Len(rows) >= 2
        THEN PatchIfPresent(PatchIfPresent(PatchIfPresent(s0, 0, v[0]), 1, v[1]),
                            4, v[4])
        ELSE s0

\* The loop over doc.paragraphs: a paragraph holding "RiQi:" or "Date:"
\* gets the footer date as its whole text.
UpdateFooter(paras, isEnglish) ==
    [p \in 1..Len(paras) |->
        IF Contains(paras[p], <<"RiQi:">>) \/ Contains(paras[p], <<"Date:">>)
        THEN IF isEnglish THEN <<"Date:", WS, "date_footer">>
             ELSE <<"RiQi:", "date_footer">>
        ELSE paras[p]]

\* The numbers of cells a row of the first table may have.
CellCounts == {0, 1, 2, 5}

FooterTexts == {<<"RiQi:", "old">>, <<"Reported", "Date:", "old">>, <<"Remarks">>}

UpdateDocumentDateWeather ==
    /\ dw.pc = "call"
    /\ LET t == PatchFirstTable(dw.hasTable, dw.rows, dw.isEnglish)
       IN  dw' = [dw EXCEPT
                    !.pc = "done",
                    !.rowsAfter = t.rows,
                    !.raised = t.raised,
                    !.parasAfter = IF t.raised THEN dw.paras
                                   ELSE UpdateFooter(dw.paras, dw.isEnglish)]
    /\ UNCHANGED <<insVars, tblVars, est, wx, conc, cls, upd>>

DateWeatherInit ==
    /\ \E e \in BOOLEAN, n \in 0..MaxPatchRows, k \in 0..2, en \in BOOLEAN :
         \E counts \in [1..n -> CellCounts], ps \in [1..k -> FooterTexts] :
           LET rows == [r \in 1..n |-> [c \in 1..counts[r] |-> <<"old">>]]
           IN  /\ ~e => n = 0
               /\ dw = [pc |-> "call", hasTable |-> e, isEnglish |-> en,
                        rows |-> rows, paras |-> ps,
                        rowsAfter |-> rows, parasAfter |-> ps, raised |-> FALSE]
    /\ InsIdle /\ TblIdle
    /\ est = Idle /\ wx = Idle /\ conc = Idle /\ cls = Idle /\ upd = Idle

DateWeatherNext == UpdateDocumentDateWeather

SpecDateWeather == DateWeatherInit /\ [][DateWeatherNext]_vars

(* ================ claims about the date and weather patches ============ *)
\* The cell of the second row in column c exists.
CellExists(c) == dw.hasTable /\ Len(dw.rows) >= 2 /\ Len(dw.rows[2]) >= c + 1

IsFooter(text) == Contains(text, <<"RiQi:">>) \/ Contains(text, <<"Date:">>)

\* C19: update_document_date_weather raises nothing; each of the patches of
\* columns 0, 1 and 4 of the second row is applied exactly when that cell
\* exists, every other cell keeps its text, and the footer paragraphs get the
\* footer date whatever the table looked like, also without any table.
C19_PatchesAppliedIffCellExists ==
    dw.pc = "done" =>
        /\ ~dw.raised
        /\ Len(dw.rowsAfter) = Len(dw.rows)
        /\ \A r \in 1..Len(dw.rows) :
              /\ Len(dw.rowsAfter[r]) = Len(dw.rows[r])
              /\ \A c \in 1..Len(dw.rows[r]) :
                    IF r = 2 /\ (c - 1) \in {0, 1, 4}
                    THEN dw.rowsAfter[r][c] = PatchValues(dw.isEnglish)[c - 1]
                    ELSE dw.rowsAfter[r][c] = dw.rows[r][c]
        /\ \A c \in {0, 1, 4} :
              CellExists(c) <=>
                  /\ Len(dw.rowsAfter) >= 2
                  /\ c + 1 \in DOMAIN dw.rowsAfter[2]
                  /\ dw.rowsAfter[2][c + 1] = PatchValues(dw.isEnglish)[c]
        /\ Len(dw.parasAfter) = Len(dw.paras)
        /\ \A p \in 1..Len(dw.paras) :
              IF IsFooter(dw.paras[p])
              THEN /\ dw.parasAfter[p] # dw.paras[p]
                   /\ Contains(dw.parasAfter[p], <<"date_footer">>)
              ELSE dw.parasAfter[p] = dw.paras[p]

\* A second row of two cells: the date and weather patches are applied, the
\* temperature patch is skipped, and a footer paragraph is rewritten.
C19_Witness ==
    /\ dw.pc = "done"
    /\ dw.hasTable
    /\ Len(dw.rows) >= 2
    /\ Len(dw.rows[2]) = 2
    /\ dw.rowsAfter[2] = <<PatchValues(dw.isEnglish)[0], PatchValues(dw.isEnglish)[1]>>
    /\ \E p \in 1..Len(dw.paras) :
          IsFooter(dw.paras[p]) /\ Contains(dw.parasAfter[p], <<"date_footer">>)

(* ================== claims about an empty record list ================== *)
\* Some paragraph of the template holds a heading the call looks for and a
\* table follows it.
TableAfterHeading ==
    \E i \in ParagraphIndices(template) :
        /\ \E k \in 1..Len(PossibleHeadings(heading)) :
              Contains(template[i].text, PossibleHeadings(heading)[k])
        /\ \E j \in (i + 1)..Len(template) : template[j].kind = "tbl"

\* C20: with an empty record list no table is built and the heading insert
\* is not called: the document keeps the blocks of its template, nothing is
\* deleted, and it is saved like that.
C20_EmptyDataLeavesDocument ==
    dataEmpty =>
        /\ pc \in {"loaded", "skipped", "saved"}
        /\ doc = template
        /\ newTable = 0
        /\ deleted = 0
        /\ result = "none"

\* A saved document of a call with no records whose template has a table
\* after the heading, deletion being asked for.
C20_Witness ==
    /\ dataEmpty
    /\ pc = "saved"
    /\ deleteExisting
    /\ TableAfterHeading
    /\ doc = template

(* ============== claims about what the inserter leaves alone ============ *)
\* The blocks that were in the document before the table of this round was
\* built, as the call found them.
PreExisting == {i \in 1..Len(docAtCall) : docAtCall[i].id # newTable}

Surviving == {i \in PreExisting : docAtCall[i].id \in Ids(doc)}

\* C21: a call of insert_table_after_heading removes at most one block that
\* was there before, and that block is a table; it removes no paragraph, and
\* nothing at all when delete_existing is false; the blocks that stay are
\* unchanged and keep their relative order.
C21_RemovesAtMostOneTable ==
    Returned =>
        /\ Cardinality(PreExisting \ Surviving) <= 1
        /\ \A i \in PreExisting \ Surviving : docAtCall[i].kind = "tbl"
        /\ ~deleteExisting => Surviving = PreExisting
        /\ \A i \in Surviving :
              doc[IndexOf(doc, docAtCall[i].id)] = docAtCall[i]
        /\ \A i, j \in Surviving :
              i < j => IndexOf(doc, docAtCall[i].id) < IndexOf(doc, docAtCall[j].id)

\* A call that removed an older table and inserted the new one between two
\* blocks that stayed, one of them a paragraph after the removed table's
\* heading.
C21_Witness ==
    /\ Returned /\ deleteExisting /\ result = "true"
    /\ Cardinality(PreExisting \ Surviving) = 1
    /\ Cardinality(Surviving) >= 2
    /\ \E i \in Surviving :
          /\ docAtCall[i].kind = "p"
          /\ IndexOf(doc, docAtCall[i].id) > IndexOf(doc, newTable)

(* ================== claims about repeated replacement ================== *)
NumTables(d) == Cardinality({i \in 1..Len(d) : d[i].kind = "tbl"})

\* C22: in every round after the first of (build a table, insert it with
\* delete_existing set under the same heading) on a document with a matching
\* heading, the document has as many tables as after the round before, and
\* the block right after the anchor is the table built in this round.
C22_NoAccumulation ==
    (Returned /\ deleteExisting /\ round >= 2 /\ result = "true") =>
        /\ NumTables(doc) = NumTables(template)
        /\ doc[IndexOf(doc, insAnchor) + 1].id = newTable

(* ============== claims about the minimum after the scaling ============= *)
\* C23: when every column's minimum is at most its maximum and the minimums
\* sum to at most the total, every final width (after the scaling step) is
\* at least the column's minimum.
C23_FinalWidthAtLeastMinimum ==
    ( /\ EstDone
      /\ \A c \in EstCols : EstLo[c] <= EstHi[c]
      /\ SumSeq(EstLo) <= est.in.total )
    => \A c \in EstCols : est.final[c].num >= EstLo[c] * est.final[c].den
====
